---- MODULE Spec2Model ----
(***************************************************************************)
(* A model of pangeo_forge_recipes/types.py: the Dimension / Position      *)
(* value types and their dataclass-generated comparisons, the Index        *)
(* dictionary with its sorted-state hash and serialization, and the        *)
(* CodedGroupItem text codec.                                              *)
(*                                                                         *)
(* Python strings and bytes are sequences: a str is a sequence of          *)
(* one-character strings, a bytes value is a sequence of byte numbers.     *)
(* A call that can raise returns a record [ok, err, val]; ok = FALSE       *)
(* stands for the exception named by err.                                  *)
(***************************************************************************)
EXTENDS Integers, Sequences, FiniteSets, TLC

VARIABLES
    lhs, rhs, cmp,      \* two values and the result of the last comparison of them
    idx, other, ret,    \* an Index object, a second Index object, the last call's result
    cur, enc, dec,      \* a CodedGroupItem, its encoding, the decoding of that
    groups, chain       \* a list of CodedGroupItems and its chained encoding

vars == <<lhs, rhs, cmp, idx, other, ret, cur, enc, dec, groups, chain>>

ordVars == <<lhs, rhs, cmp>>
idxVars == <<idx, other, ret>>
codecVars == <<cur, enc, dec>>
chainVars == <<groups, chain>>

----------------------------------------------------------------------------
(* Bounds of the model. *)

MaxValue == 1       \* Position.value ranges over 0..MaxValue
MaxDimsize == 1     \* IndexedPosition.dimsize ranges over 0..MaxDimsize

----------------------------------------------------------------------------
(* Results of calls. *)

Ok(v) == [ok |-> TRUE, err |-> "", val |-> v]
Raise(e, dflt) == [ok |-> FALSE, err |-> e, val |-> dflt]

----------------------------------------------------------------------------
(* Python str ordering: lexicographic by code point. *)

Ord(c) ==
    CASE c = "&" -> 38 [] c = "-" -> 45
      [] c = "0" -> 48 [] c = "1" -> 49 [] c = "2" -> 50 [] c = "3" -> 51
      [] c = "4" -> 52 [] c = "5" -> 53 [] c = "6" -> 54 [] c = "7" -> 55
      [] c = "8" -> 56 [] c = "9" -> 57 [] c = ":" -> 58
      [] c = "A" -> 65 [] c = "B" -> 66 [] c = "C" -> 67 [] c = "D" -> 68
      [] c = "E" -> 69 [] c = "F" -> 70 [] c = "O" -> 79
      [] c = "X" -> 88 [] c = "Y" -> 89
      [] c = "a" -> 97 [] c = "b" -> 98 [] c = "c" -> 99 [] c = "d" -> 100
      [] c = "e" -> 101 [] c = "f" -> 102 [] c = "o" -> 111
      [] c = "x" -> 120 [] c = "y" -> 121

RECURSIVE StrLt(_, _)
StrLt(s, t) ==
    IF s = <<>> THEN t # <<>>
    ELSE IF t = <<>> THEN FALSE
    ELSE IF Head(s) # Head(t) THEN Ord(Head(s)) < Ord(Head(t))
    ELSE StrLt(Tail(s), Tail(t))

----------------------------------------------------------------------------
(* CombineOp: an Enum (not an IntEnum) with three members. *)

CombineOp == {"MERGE", "CONCAT", "SUBSET"}

CombineOpValue(op) ==
    CASE op = "MERGE" -> 1 [] op = "CONCAT" -> 2 [] op = "SUBSET" -> 3

(* Enum defines __eq__ and __hash__ but no __lt__: `<` between two members *)
(* raises TypeError.                                                       *)
CombineOpLt(a, b) == Raise("TypeError", FALSE)

----------------------------------------------------------------------------
(* Dimension: @dataclass(frozen=True, order=True) with fields              *)
(* (name, operation).                                                      *)

Dimension(name, operation) == [name |-> name, operation |-> operation]

DimensionEq(a, b) == a.name = b.name /\ a.operation = b.operation

(* The generated __lt__ compares the tuples (name, operation): the first   *)
(* unequal field decides, by that field's own `<`.                         *)
DimensionLt(a, b) ==
    IF a.name # b.name THEN Ok(StrLt(a.name, b.name))
    ELSE IF a.operation # b.operation THEN CombineOpLt(a.operation, b.operation)
    ELSE Ok(FALSE)

(* The generated __hash__ is hash((name, operation)); a hash is modelled   *)
(* by the value that is hashed.                                            *)
DimensionHash(d) == <<d.name, d.operation>>

----------------------------------------------------------------------------
(* Position and its subclass IndexedPosition, both                         *)
(* @dataclass(frozen=True, order=True).  Position has the fields           *)
(* (value, indexed); IndexedPosition has (value, indexed, dimsize).        *)
(* A Position record carries dimsize = 0, which no operation on it reads.  *)

Position(value, indexed) ==
    [cls |-> "Position", value |-> value, indexed |-> indexed, dimsize |-> 0]

IndexedPosition(value, indexed, dimsize) ==
    [cls |-> "IndexedPosition", value |-> value, indexed |-> indexed,
     dimsize |-> dimsize]

BoolInt(b) == IF b THEN 1 ELSE 0

(* The dataclass's field tuple, with bool as the int it is in Python.      *)
PositionFields(p) ==
    IF p.cls = "Position" THEN <<p.value, BoolInt(p.indexed)>>
    ELSE <<p.value, BoolInt(p.indexed), p.dimsize>>

RECURSIVE TupleLt(_, _)
TupleLt(s, t) ==
    IF s = <<>> THEN t # <<>>
    ELSE IF t = <<>> THEN FALSE
    ELSE IF Head(s) # Head(t) THEN Head(s) < Head(t)
    ELSE TupleLt(Tail(s), Tail(t))

(* A mutant of PositionEq: equality on (value, indexed) alone.             *)
PositionEqLossy(p, q) == p.value = q.value /\ p.indexed = q.indexed

(* The generated __eq__ returns NotImplemented unless both operands have   *)
(* the very same class, and then compares the field tuples; with           *)
(* NotImplemented on both sides `==` falls back to identity.               *)
PositionEq(p, q) ==
    /\ p.cls = q.cls
    /\ PositionFields(p) = PositionFields(q)

(* The generated __lt__ likewise; NotImplemented on both sides raises.     *)
PositionLt(p, q) ==
    IF p.cls # q.cls THEN Raise("TypeError", FALSE)
    ELSE Ok(TupleLt(PositionFields(p), PositionFields(q)))

PositionHash(p) == PositionFields(p)

----------------------------------------------------------------------------
(* The values the model draws from. *)

NameX == <<"x">>
NameY == <<"y">>
DimNames == {NameX, NameY}

Dimensions == {Dimension(n, o) : n \in DimNames, o \in CombineOp}

Positions ==
    {Position(v, i) : v \in 0..MaxValue, i \in BOOLEAN}
    \cup {IndexedPosition(v, i, s) :
            v \in 0..MaxValue, i \in BOOLEAN, s \in 0..MaxDimsize}

IsDimension(v) == "operation" \in DOMAIN v
IsPosition(v) == "cls" \in DOMAIN v

NoCmp == [op |-> "none", ok |-> TRUE, err |-> "", val |-> FALSE,
          hl |-> <<>>, hr |-> <<>>]
NoIndex == [via |-> "none", items |-> <<>>]
NoRet == [op |-> "none", arg |-> <<>>, ok |-> TRUE, err |-> "", val |-> <<>>,
          had |-> FALSE, hl |-> <<>>, hr |-> <<>>]
NoGroup == [name |-> <<>>, val |-> 0]
NoItem == [via |-> "none", arg |-> <<>>, ok |-> FALSE, err |-> "unset",
           val |-> NoGroup]
NoBytes == [ok |-> FALSE, err |-> "unset", val |-> <<>>]

----------------------------------------------------------------------------
(* Comparisons of two Dimensions or two positions. *)

ValueEq(a, b) == IF IsDimension(a) THEN DimensionEq(a, b) ELSE PositionEq(a, b)
ValueLt(a, b) == IF IsDimension(a) THEN DimensionLt(a, b) ELSE PositionLt(a, b)
ValueHash(a) == IF IsDimension(a) THEN DimensionHash(a) ELSE PositionHash(a)

InitOrd ==
    /\ \E pair \in (Dimensions \X Dimensions) \cup (Positions \X Positions) :
          lhs = pair[1] /\ rhs = pair[2]
    /\ cmp = NoCmp
    /\ idx = <<>> /\ other = NoIndex /\ ret = NoRet
    /\ cur = NoItem /\ enc = NoBytes /\ dec = NoItem
    /\ groups = <<>> /\ chain = NoBytes

(* lhs == rhs *)
CompareEq ==
    /\ cmp' = [NoCmp EXCEPT !.op = "eq", !.val = ValueEq(lhs, rhs)]
    /\ UNCHANGED <<lhs, rhs, idxVars, codecVars, chainVars>>

(* lhs < rhs *)
CompareLt ==
    /\ LET r == ValueLt(lhs, rhs)
       IN  cmp' = [NoCmp EXCEPT !.op = "lt", !.ok = r.ok, !.err = r.err,
                                !.val = r.val]
    /\ UNCHANGED <<lhs, rhs, idxVars, codecVars, chainVars>>

(* hash(lhs), hash(rhs) *)
HashBoth ==
    /\ cmp' = [NoCmp EXCEPT !.op = "hash", !.hl = ValueHash(lhs),
                            !.hr = ValueHash(rhs)]
    /\ UNCHANGED <<lhs, rhs, idxVars, codecVars, chainVars>>

NextOrd == CompareEq \/ CompareLt \/ HashBoth

SpecOrd == InitOrd /\ [][NextOrd]_vars

(* C7: any two Dimensions a, b are comparable with `<`, and a < b is       *)
(* decided by name first and then by the operation's ordinal               *)
(* (MERGE = 1 < CONCAT = 2 < SUBSET = 3), also when the names are equal    *)
(* and the operations differ.                                              *)
C7_DimensionTotalOrder ==
    (cmp.op = "lt" /\ IsDimension(lhs)) =>
        /\ cmp.ok
        /\ cmp.val = (\/ StrLt(lhs.name, rhs.name)
                      \/ /\ lhs.name = rhs.name
                         /\ CombineOpValue(lhs.operation)
                              < CombineOpValue(rhs.operation))

----------------------------------------------------------------------------
(* Index: a dict subclass.  A dict is a sequence of (key, value) pairs in   *)
(* insertion order whose keys are pairwise unequal.                        *)

MaxLen == 2         \* most pairs an Index holds
MaxState == 2       \* most pairs in an argument of update / __setstate__

DictHasKey(m, d) == \E i \in 1..Len(m) : DimensionEq(m[i][1], d)

(* A mutant of DictSetItem: appends the pair without looking for the key.  *)
DictSetItemAppend(m, d, p) == Append(m, <<d, p>>)

(* m[d] = p: an existing key keeps its place (and its key object) and gets *)
(* the new value; a new key goes to the end.                               *)
DictSetItem(m, d, p) ==
    IF DictHasKey(m, d)
    THEN [i \in 1..Len(m) |->
            IF DimensionEq(m[i][1], d) THEN <<m[i][1], p>> ELSE m[i]]
    ELSE Append(m, <<d, p>>)

(* del m[d], for a key that is present. *)
DictDelItem(m, d) ==
    LET Keep(it) == ~DimensionEq(it[1], d)
    IN  SelectSeq(m, Keep)

(* m.update(pairs), also dict.__init__(m, pairs): the pairs are set in     *)
(* order.                                                                  *)
RECURSIVE DictUpdate(_, _)
DictUpdate(m, pairs) ==
    IF pairs = <<>> THEN m
    ELSE DictUpdate(DictSetItem(m, Head(pairs)[1], Head(pairs)[2]), Tail(pairs))

(* Index(pairs), and the comprehension {k: v for k, v in state}. *)
DictFromPairs(pairs) == DictUpdate(<<>>, pairs)

(* dict.__eq__, which Index inherits: same length, and every key of a is a *)
(* key of b with an equal value.                                           *)
DictEq(a, b) ==
    /\ Len(a) = Len(b)
    /\ \A i \in 1..Len(a) : \E j \in 1..Len(b) :
          DimensionEq(a[i][1], b[j][1]) /\ PositionEq(a[i][2], b[j][2])

(* `<` between two items, which are tuples (Dimension, Position): the      *)
(* first unequal component decides, by its own `<`.                        *)
ItemLt(x, y) ==
    IF ~DimensionEq(x[1], y[1]) THEN DimensionLt(x[1], y[1])
    ELSE IF ~PositionEq(x[2], y[2]) THEN PositionLt(x[2], y[2])
    ELSE Ok(FALSE)

(* sorted(): a stable insertion sort that uses `<` alone; an exception of  *)
(* a comparison propagates.                                                *)
RECURSIVE InsertSorted(_, _)
InsertSorted(s, x) ==
    IF s = <<>> THEN Ok(<<x>>)
    ELSE LET last == s[Len(s)]
             lt == ItemLt(x, last)
         IN  IF ~lt.ok THEN Raise(lt.err, <<>>)
             ELSE IF lt.val
             THEN LET rest == InsertSorted(SubSeq(s, 1, Len(s) - 1), x)
                  IN  IF rest.ok THEN Ok(Append(rest.val, last)) ELSE rest
             ELSE Ok(Append(s, x))

RECURSIVE Sorted(_)
Sorted(s) ==
    IF s = <<>> THEN Ok(<<>>)
    ELSE LET front == Sorted(SubSeq(s, 1, Len(s) - 1))
         IN  IF front.ok THEN InsertSorted(front.val, s[Len(s)]) ELSE front

(* Index.__getstate__ *)
GetState(m) == Sorted(m)

(* Index.__hash__: the hash of the tuple of the sorted items. *)
IndexHash(m) ==
    LET st == GetState(m)
    IN  IF st.ok
        THEN Ok([i \in 1..Len(st.val) |->
                   <<DimensionHash(st.val[i][1]), PositionHash(st.val[i][2])>>])
        ELSE st

(* Index.__setstate__: self.__init__ of the dict built from the state.     *)
SetState(m, state) == DictUpdate(m, DictFromPairs(state))

(* A mutant of find_concat_dim: it selects by name alone. *)
find_concat_dim_any_op(m, dim_name) ==
    LET Match(it) == it[1].name = dim_name
        possible_concat_dims == SelectSeq(m, Match)
    IN  IF Len(possible_concat_dims) > 1 THEN Raise("ValueError", <<>>)
        ELSE IF Len(possible_concat_dims) = 0 THEN Ok(<<>>)
        ELSE Ok(<<possible_concat_dims[1][1]>>)

(* Index.find_concat_dim; the Optional result is a sequence of length 0    *)
(* (None) or 1.                                                            *)
find_concat_dim(m, dim_name) ==
    LET Match(it) == it[1].name = dim_name /\ it[1].operation = "CONCAT"
        possible_concat_dims == SelectSeq(m, Match)
    IN  IF Len(possible_concat_dims) > 1 THEN Raise("ValueError", <<>>)
        ELSE IF Len(possible_concat_dims) = 0 THEN Ok(<<>>)
        ELSE Ok(<<possible_concat_dims[1][1]>>)

----------------------------------------------------------------------------
(* The Index operations, on values drawn from small sets. *)

IndexDims ==
    {Dimension(NameX, "MERGE"), Dimension(NameX, "CONCAT"),
     Dimension(NameY, "CONCAT"), Dimension(NameY, "SUBSET")}

IndexPositions == {Position(0, FALSE), IndexedPosition(1, TRUE, 1)}

IndexPairs == IndexDims \X IndexPositions

PairLists(n) == UNION {[1..k -> IndexPairs] : k \in 0..n}

FindNames == DimNames \cup {<<"y", "x">>}

InitIndex ==
    /\ \E pairs \in PairLists(MaxLen) : idx = DictFromPairs(pairs)
    /\ other = NoIndex /\ ret = NoRet
    /\ lhs = <<>> /\ rhs = <<>> /\ cmp = NoCmp
    /\ cur = NoItem /\ enc = NoBytes /\ dec = NoItem
    /\ groups = <<>> /\ chain = NoBytes

(* idx[d] = p *)
SetItem(d, p) ==
    /\ LET new == DictSetItem(idx, d, p)
       IN  Len(new) <= MaxLen /\ idx' = new
    /\ ret' = [NoRet EXCEPT !.op = "set", !.arg = <<d, p>>,
                            !.had = DictHasKey(idx, d)]
    /\ UNCHANGED <<other, ordVars, codecVars, chainVars>>

(* del idx[d]; KeyError when d is no key *)
DelItem(d) ==
    /\ idx' = IF DictHasKey(idx, d) THEN DictDelItem(idx, d) ELSE idx
    /\ ret' = [NoRet EXCEPT !.op = "del", !.arg = d,
                            !.ok = DictHasKey(idx, d),
                            !.err = IF DictHasKey(idx, d) THEN "" ELSE "KeyError",
                            !.had = DictHasKey(idx, d)]
    /\ UNCHANGED <<other, ordVars, codecVars, chainVars>>

(* idx.update(pairs) *)
Update(pairs) ==
    /\ LET new == DictUpdate(idx, pairs)
       IN  Len(new) <= MaxLen /\ idx' = new
    /\ ret' = [NoRet EXCEPT !.op = "update"]
    /\ UNCHANGED <<other, ordVars, codecVars, chainVars>>

(* idx.__setstate__(state) *)
SetStateCall(state) ==
    /\ LET new == SetState(idx, state)
       IN  Len(new) <= MaxLen /\ idx' = new
    /\ ret' = [NoRet EXCEPT !.op = "setstate"]
    /\ UNCHANGED <<other, ordVars, codecVars, chainVars>>

(* idx.find_concat_dim(n) *)
FindConcatDim(n) ==
    /\ LET r == find_concat_dim(idx, n)
       IN  ret' = [NoRet EXCEPT !.op = "find", !.arg = n, !.ok = r.ok,
                                !.err = r.err, !.val = r.val]
    /\ UNCHANGED <<idx, other, ordVars, codecVars, chainVars>>

(* hash(idx) *)
HashCall ==
    /\ LET r == IndexHash(idx)
       IN  ret' = [NoRet EXCEPT !.op = "hash", !.ok = r.ok, !.err = r.err,
                                !.val = r.val]
    /\ UNCHANGED <<idx, other, ordVars, codecVars, chainVars>>

NextIndex ==
    \/ \E d \in IndexDims, p \in IndexPositions : SetItem(d, p)
    \/ \E d \in IndexDims : DelItem(d)
    \/ \E pairs \in PairLists(MaxState) : Update(pairs)
    \/ \E state \in PairLists(MaxState) : SetStateCall(state)
    \/ \E n \in FindNames : FindConcatDim(n)
    \/ HashCall

SpecIndex == InitIndex /\ [][NextIndex]_vars

ConcatKeys(m, n) ==
    {i \in 1..Len(m) : m[i][1].name = n /\ m[i][1].operation = "CONCAT"}

(* C3: find_concat_dim(name) returns the key with that name and operation  *)
(* CONCAT when exactly one exists, None when none exists (also when a key  *)
(* of that name has another operation), raises when more than one exists;  *)
(* what it returns is a key of the Index, and the call leaves the Index    *)
(* unchanged.                                                              *)
C3_FindConcatDim ==
    /\ [](ret.op = "find" =>
            LET k == Cardinality(ConcatKeys(idx, ret.arg))
            IN  /\ k = 1 => /\ ret.ok
                            /\ ret.val = <<Dimension(ret.arg, "CONCAT")>>
                /\ k = 0 => ret.ok /\ ret.val = <<>>
                /\ k > 1 => ~ret.ok /\ ret.err = "ValueError"
                /\ (ret.ok /\ ret.val # <<>>) =>
                      \E i \in 1..Len(idx) : idx[i][1] = ret.val[1])
    /\ [][ret'.op = "find" => idx' = idx]_vars

(* find_concat_dim("x") has returned the CONCAT Dimension of an Index that *)
(* also holds a MERGE Dimension named "x".                                 *)
C3_Witness ==
    /\ ret.op = "find"
    /\ ret.val = <<Dimension(NameX, "CONCAT")>>
    /\ DictHasKey(idx, Dimension(NameX, "MERGE"))

(* C8: no mapping operation applied through an Index changes its pairs or  *)
(* its hash.                                                               *)
C8_IndexImmutable ==
    [][idx' = idx /\ IndexHash(idx)' = IndexHash(idx)]_vars

(* C10: every reachable Index holds at most one key of a given name with   *)
(* operation CONCAT, so find_concat_dim raises on none.                    *)
C10_AtMostOneConcatPerName ==
    \A n \in FindNames :
        /\ Cardinality(ConcatKeys(idx, n)) <= 1
        /\ find_concat_dim(idx, n).ok

(* A CONCAT Dimension that was already a key has been set again. *)
C10_Witness ==
    /\ ret.op = "set"
    /\ ret.had
    /\ ret.arg[1].operation = "CONCAT"
    /\ Cardinality(ConcatKeys(idx, ret.arg[1].name)) = 1

----------------------------------------------------------------------------
(* Identity of Index values: a second Index built from the first one's     *)
(* items in another order, or from its serialized state.                   *)

(* other = Index(the items of idx in the order perm) *)
Rebuild(perm) ==
    /\ other' = [via |-> "perm",
                 items |-> DictFromPairs([i \in 1..Len(idx) |-> idx[perm[i]]])]
    /\ ret' = [NoRet EXCEPT !.op = "rebuild"]
    /\ UNCHANGED <<idx, ordVars, codecVars, chainVars>>

(* state = idx.__getstate__(); other = Index.__new__(Index);               *)
(* other.__setstate__(state)                                               *)
RoundTrip ==
    /\ LET st == GetState(idx)
       IN  /\ other' = IF st.ok
                       THEN [via |-> "setstate", items |-> SetState(<<>>, st.val)]
                       ELSE other
           /\ ret' = [NoRet EXCEPT !.op = "roundtrip", !.ok = st.ok,
                                   !.err = st.err]
    /\ UNCHANGED <<idx, ordVars, codecVars, chainVars>>

(* idx == other, hash(idx), hash(other) *)
CompareOther ==
    /\ other.via # "none"
    /\ ret' = [NoRet EXCEPT !.op = "compare",
                            !.val = DictEq(idx, other.items),
                            !.hl = IndexHash(idx),
                            !.hr = IndexHash(other.items)]
    /\ UNCHANGED <<idx, other, ordVars, codecVars, chainVars>>

NextIdent ==
    \/ \E d \in IndexDims, p \in IndexPositions : SetItem(d, p)
    \/ \E perm \in Permutations(1..Len(idx)) : Rebuild(perm)
    \/ RoundTrip
    \/ CompareOther

SpecIdent == InitIndex /\ [][NextIdent]_vars

ItemSet(m) == {m[i] : i \in 1..Len(m)}

(* C1: two Indexes that hold the same (Dimension, Position) pairs, built   *)
(* in any two insertion orders, hash without error to the same value and   *)
(* compare equal, also when Dimensions share a name and differ in          *)
(* operation.                                                              *)
C1_OrderIndependentIdentity ==
    (/\ ret.op = "compare"
     /\ other.via = "perm"
     /\ ItemSet(idx) = ItemSet(other.items)) =>
        /\ ret.hl.ok /\ ret.hr.ok
        /\ ret.hl.val = ret.hr.val
        /\ ret.val = TRUE

(* C2: for every Index, __getstate__ yields a state, and __setstate__ of   *)
(* that state on a fresh Index yields an equal Index with an equal hash.   *)
C2_SerializationRoundTrip ==
    /\ ret.op = "roundtrip" => ret.ok
    /\ (/\ ret.op = "compare"
        /\ other.via = "setstate"
        /\ ItemSet(idx) = ItemSet(other.items)) =>
          /\ ret.hl.ok /\ ret.hr.ok
          /\ ret.hl.val = ret.hr.val
          /\ ret.val = TRUE

----------------------------------------------------------------------------
(* Text: str.encode("utf-8"), str(bytes, encoding="utf-8"), str.upper(),    *)
(* bin(), int() and "%d", on the characters the model uses (all ASCII, one  *)
(* byte each).                                                             *)

Chars == {"&", "-", "0", "1", "2", "3", "4", "5", "6", "7", "8", "9", ":",
          "A", "B", "C", "D", "E", "F", "O", "X", "Y",
          "a", "b", "c", "d", "e", "f", "o", "x", "y"}

Chr(b) == CHOOSE c \in Chars : Ord(c) = b

Utf8Encode(s) == [i \in 1..Len(s) |-> Ord(s[i])]
Utf8Decode(bs) == [i \in 1..Len(bs) |-> Chr(bs[i])]

UpperChar(c) ==
    CASE c = "a" -> "A" [] c = "b" -> "B" [] c = "c" -> "C" [] c = "d" -> "D"
      [] c = "e" -> "E" [] c = "f" -> "F" [] c = "o" -> "O"
      [] c = "x" -> "X" [] c = "y" -> "Y" [] OTHER -> c

Upper(s) == [i \in 1..Len(s) |-> UpperChar(s[i])]

DigitChar(d) ==
    CASE d = 0 -> "0" [] d = 1 -> "1" [] d = 2 -> "2" [] d = 3 -> "3"
      [] d = 4 -> "4" [] d = 5 -> "5" [] d = 6 -> "6" [] d = 7 -> "7"
      [] d = 8 -> "8" [] d = 9 -> "9" [] d = 10 -> "a" [] d = 11 -> "b"
      [] d = 12 -> "c" [] d = 13 -> "d" [] d = 14 -> "e" [] d = 15 -> "f"

(* The value of a digit character; 99 for a character that is no digit.    *)
DigitVal(c) ==
    CASE c = "0" -> 0 [] c = "1" -> 1 [] c = "2" -> 2 [] c = "3" -> 3
      [] c = "4" -> 4 [] c = "5" -> 5 [] c = "6" -> 6 [] c = "7" -> 7
      [] c = "8" -> 8 [] c = "9" -> 9 [] c \in {"a", "A"} -> 10
      [] c \in {"b", "B"} -> 11 [] c \in {"c", "C"} -> 12
      [] c \in {"d", "D"} -> 13 [] c \in {"e", "E"} -> 14
      [] c \in {"f", "F"} -> 15 [] OTHER -> 99

(* The digits of n >= 0 in a base. *)
RECURSIVE Digits(_, _)
Digits(n, base) ==
    IF n < base THEN <<DigitChar(n)>>
    ELSE Append(Digits(n \div base, base), DigitChar(n % base))

(* bin(n) *)
Bin(n) ==
    IF n < 0 THEN <<"-", "0", "b">> \o Digits(-n, 2)
    ELSE <<"0", "b">> \o Digits(n, 2)

(* "%d" % n *)
FormatD(n) == IF n < 0 THEN <<"-">> \o Digits(-n, 10) ELSE Digits(n, 10)

(* "%x" % n, used by a mutant of encode *)
FormatX(n) == IF n < 0 THEN <<"-">> \o Digits(-n, 16) ELSE Digits(n, 16)

(* The number a non-empty string of digits of a base denotes; ValueError   *)
(* for the empty string and for a character that is no digit of the base.  *)
RECURSIVE ParseDigits(_, _)
ParseDigits(s, base) ==
    IF s = <<>> THEN Raise("ValueError", 0)
    ELSE IF DigitVal(s[Len(s)]) >= base THEN Raise("ValueError", 0)
    ELSE IF Len(s) = 1 THEN Ok(DigitVal(s[1]))
    ELSE LET front == ParseDigits(SubSeq(s, 1, Len(s) - 1), base)
         IN  IF front.ok THEN Ok(front.val * base + DigitVal(s[Len(s)]))
             ELSE front

Signed(neg, r) == IF r.ok /\ neg THEN Ok(-r.val) ELSE r

(* int(s): base 10, an optional sign and decimal digits. *)
IntBase10(s) ==
    LET neg == s # <<>> /\ Head(s) = "-"
        body == IF neg THEN Tail(s) ELSE s
    IN  Signed(neg, ParseDigits(body, 10))

(* int(s, base=0): the prefix 0b / 0o / 0x selects base 2 / 8 / 16; with   *)
(* no prefix the base is 10, and a leading zero is allowed only in zero.   *)
IntBase0(s) ==
    LET neg == s # <<>> /\ Head(s) = "-"
        body == IF neg THEN Tail(s) ELSE s
        prefixed == Len(body) >= 2 /\ body[1] = "0"
        rest == SubSeq(body, 3, Len(body))
    IN  IF prefixed /\ body[2] \in {"b", "B"} THEN Signed(neg, ParseDigits(rest, 2))
        ELSE IF prefixed /\ body[2] \in {"o", "O"} THEN Signed(neg, ParseDigits(rest, 8))
        ELSE IF prefixed /\ body[2] \in {"x", "X"} THEN Signed(neg, ParseDigits(rest, 16))
        ELSE IF prefixed /\ \E i \in 1..Len(body) : body[i] # "0"
        THEN Raise("ValueError", 0)
        ELSE Signed(neg, ParseDigits(body, 10))

(* s.split(sep), for a one-character separator. *)
RECURSIVE Split(_, _)
Split(s, sep) ==
    IF \A i \in 1..Len(s) : s[i] # sep THEN <<s>>
    ELSE LET k == CHOOSE i \in 1..Len(s) :
                     s[i] = sep /\ \A j \in 1..(i - 1) : s[j] # sep
         IN  <<SubSeq(s, 1, k - 1)>> \o Split(SubSeq(s, k + 1, Len(s)), sep)

(* sep.join(parts) *)
RECURSIVE Join(_, _)
Join(sep, parts) ==
    IF parts = <<>> THEN <<>>
    ELSE IF Len(parts) = 1 THEN parts[1]
    ELSE parts[1] \o sep \o Join(sep, Tail(parts))

----------------------------------------------------------------------------
(* CodedGroupItem and CodedGroupItemCoder. *)

CodedGroupItem(name, val) == [name |-> name, val |-> val]

(* CodedGroupItem.from_literal *)
from_literal(s_name, i_val) ==
    LET name == Upper(Utf8Decode(Utf8Encode(s_name)))
        val == IntBase0(Bin(i_val))
    IN  IF val.ok THEN Ok(CodedGroupItem(name, val.val))
        ELSE Raise(val.err, NoGroup)

(* CodedGroupItem.from_strings *)
from_strings(s_name, s_val) ==
    LET name == Upper(Utf8Decode(Utf8Encode(s_name)))
        inner == IntBase10(s_val)
        val == IF inner.ok THEN IntBase0(Bin(inner.val)) ELSE inner
    IN  IF val.ok THEN Ok(CodedGroupItem(name, val.val))
        ELSE Raise(val.err, NoGroup)

(* A mutant of encode: the value in hexadecimal. *)
encode_hex(group) == Utf8Encode(group.name \o <<":">> \o FormatX(group.val))

(* CodedGroupItemCoder.encode *)
encode(group) == Utf8Encode(group.name \o <<":">> \o FormatD(group.val))

(* CodedGroupItemCoder.decode: the parts are from_strings' arguments, and  *)
(* it takes exactly two.                                                   *)
decode(s) ==
    LET parts == Split(Utf8Decode(s), ":")
    IN  IF Len(parts) # 2 THEN Raise("TypeError", NoGroup)
        ELSE from_strings(parts[1], parts[2])

(* A mutant of chain_encode: a one-byte separator. *)
chain_encode_one_amp(gs) ==
    Join(Utf8Encode(<<"&">>), [i \in 1..Len(gs) |-> encode(gs[i])])

(* CodedGroupItemCoder.chain_encode *)
chain_encode(gs) ==
    Join(Utf8Encode(<<"&", "&">>), [i \in 1..Len(gs) |-> encode(gs[i])])

----------------------------------------------------------------------------
(* The codec on names and values drawn from small sets. *)

MaxNameLen == 1     \* longest name
MaxVal == 11        \* values range over -1..MaxVal
MaxGroups == 3      \* longest list given to chain_encode

NameChars == {"a", "B", ":"}
CodecNames == UNION {[1..k -> NameChars] : k \in 0..MaxNameLen}
CodecVals == -1..MaxVal

ValueStrings ==
    {<<"1", "0">>, <<"0", "x", "a">>, <<"0", "b", "1", "0", "1", "0">>,
     <<"0", "o", "1", "2">>, <<"0", "1", "0">>, <<"7">>, <<"-", "1">>,
     <<"1", "a">>, <<>>}

InitCodec ==
    /\ cur = NoItem /\ enc = NoBytes /\ dec = NoItem
    /\ lhs = <<>> /\ rhs = <<>> /\ cmp = NoCmp
    /\ idx = <<>> /\ other = NoIndex /\ ret = NoRet
    /\ groups = <<>> /\ chain = NoBytes

Built(via, arg, r) ==
    [via |-> via, arg |-> arg, ok |-> r.ok, err |-> r.err, val |-> r.val]

(* cur = CodedGroupItem.from_literal(n, v) *)
FromLiteral(n, v) ==
    /\ cur' = Built("literal", <<n, v>>, from_literal(n, v))
    /\ enc' = NoBytes /\ dec' = NoItem
    /\ UNCHANGED <<ordVars, idxVars, chainVars>>

(* cur = CodedGroupItem.from_strings(n, s) *)
FromStrings(n, s) ==
    /\ cur' = Built("strings", <<n, s>>, from_strings(n, s))
    /\ enc' = NoBytes /\ dec' = NoItem
    /\ UNCHANGED <<ordVars, idxVars, chainVars>>

(* cur = CodedGroupItem(n, v) *)
Construct(n, v) ==
    /\ cur' = Built("direct", <<>>, Ok(CodedGroupItem(n, v)))
    /\ enc' = NoBytes /\ dec' = NoItem
    /\ UNCHANGED <<ordVars, idxVars, chainVars>>

(* enc = coder.encode(cur) *)
Encode ==
    /\ cur.ok
    /\ enc' = Ok(encode(cur.val))
    /\ dec' = NoItem
    /\ UNCHANGED <<cur, ordVars, idxVars, chainVars>>

(* dec = coder.decode(enc) *)
Decode ==
    /\ enc.ok
    /\ dec' = Built("decode", <<>>, decode(enc.val))
    /\ UNCHANGED <<cur, enc, ordVars, idxVars, chainVars>>

NextCodec ==
    \/ \E n \in CodecNames, v \in CodecVals : FromLiteral(n, v)
    \/ \E n \in CodecNames, s \in ValueStrings : FromStrings(n, s)
    \/ \E n \in CodecNames, v \in CodecVals : Construct(n, v)
    \/ Encode
    \/ Decode

SpecCodec == InitCodec /\ [][NextCodec]_vars

Decoded == dec.via = "decode"

(* C4 as stated: decode(encode(item)) == item for every item encode        *)
(* accepts, whether built by from_literal or not.                          *)
C4_DecodeInvertsEncode ==
    Decoded => (dec.ok /\ dec.val = cur.val)

(* C4 amended: decode(encode(item)) == item for every item whose name      *)
(* holds no ':' and no lower-case letter; from_literal(name, value) is     *)
(* such an item for every name without ':' and every integer value.        *)
C4_RoundTripOfNormalizedItems ==
    LET name == cur.val.name
        NoColon == \A i \in 1..Len(name) : name[i] # ":"
        NoLower == \A i \in 1..Len(name) :
                      name[i] \notin {"a", "b", "c", "d", "e", "f", "o", "x", "y"}
    IN  /\ (Decoded /\ NoColon /\ NoLower) => (dec.ok /\ dec.val = cur.val)
        /\ (Decoded /\ NoColon /\ cur.via = "literal") =>
              (dec.ok /\ dec.val = cur.val)

(* An item built by from_literal from a lower-case name and a two-digit    *)
(* value has been encoded and decoded back to itself.                      *)
C4_Witness ==
    /\ Decoded
    /\ cur.via = "literal"
    /\ cur.arg = <<(<<"a">>), 10>>
    /\ cur.val = CodedGroupItem(<<"A">>, 10)
    /\ enc.val = <<65, 58, 49, 48>>
    /\ dec.ok /\ dec.val = cur.val

(* C5: from_strings("a", s) for s = "10", "0xa", "0b1010" returns the      *)
(* item ("A", 10) and does not fail.                                       *)
C5_BaseParsingEquivalence ==
    (/\ cur.via = "strings"
     /\ cur.arg[1] = <<"a">>
     /\ cur.arg[2] \in {<<"1", "0">>, <<"0", "x", "a">>,
                        <<"0", "b", "1", "0", "1", "0">>}) =>
        (cur.ok /\ cur.val = CodedGroupItem(<<"A">>, 10))

----------------------------------------------------------------------------
(* chain_encode on lists of items. *)

ChainItems ==
    {from_literal(n, v).val : n \in {<<>>, <<"a">>, <<"B">>}, v \in {0, MaxVal + 1}}

InitChain ==
    /\ groups = <<>> /\ chain = NoBytes
    /\ lhs = <<>> /\ rhs = <<>> /\ cmp = NoCmp
    /\ idx = <<>> /\ other = NoIndex /\ ret = NoRet
    /\ cur = NoItem /\ enc = NoBytes /\ dec = NoItem

(* groups.append(g) *)
AppendGroup(g) ==
    /\ Len(groups) < MaxGroups
    /\ groups' = Append(groups, g)
    /\ chain' = NoBytes
    /\ UNCHANGED <<ordVars, idxVars, codecVars>>

(* chain = coder.chain_encode(groups) *)
ChainEncode ==
    /\ chain' = Ok(chain_encode(groups))
    /\ UNCHANGED <<groups, ordVars, idxVars, codecVars>>

NextChain ==
    \/ \E g \in ChainItems : AppendGroup(g)
    \/ ChainEncode

SpecChain == InitChain /\ [][NextChain]_vars

(* The items' encodings with "&&" between neighbours, built from the end.  *)
RECURSIVE JoinedEncodings(_)
JoinedEncodings(gs) ==
    IF gs = <<>> THEN <<>>
    ELSE IF Len(gs) = 1 THEN encode(gs[1])
    ELSE JoinedEncodings(SubSeq(gs, 1, Len(gs) - 1))
           \o <<38, 38>> \o encode(gs[Len(gs)])

(* C9: chain_encode returns the items' encodings ("NAME:decimal" in UTF-8) *)
(* in order with the two bytes "&&" between neighbours: one item gives its *)
(* plain encoding, two items give encode(g1) + b"&&" + encode(g2); a       *)
(* repeated call on the same list returns the same bytes.                  *)
C9_ChainEncoding ==
    /\ [](chain.ok =>
            /\ chain.val = JoinedEncodings(groups)
            /\ Len(groups) = 1 => chain.val = encode(groups[1])
            /\ Len(groups) = 2 =>
                  chain.val = encode(groups[1]) \o <<38, 38>> \o encode(groups[2])
            /\ (Len(groups) >= 1 /\ groups[1] = CodedGroupItem(<<"B">>, MaxVal + 1)) =>
                  SubSeq(chain.val, 1, Len(encode(groups[1])))
                    = <<66, 58>> \o Utf8Encode(Digits(MaxVal + 1, 10)))
    /\ [][(chain.ok /\ chain'.ok /\ groups' = groups) => chain' = chain]_vars

(* Two different items have been chained. *)
C9_Witness ==
    /\ chain.ok
    /\ Len(groups) = 2
    /\ groups[1] # groups[2]
    /\ chain.val = encode(groups[1]) \o <<38, 38>> \o encode(groups[2])

====
